---- MODULE Spec2Model ----
(***************************************************************************)
(* Model of the pipeline part of the rotation dashboard (src/app.py): the  *)
(* six step functions of RotationDashboard, each a blocking subprocess.run *)
(* with its four return statements, the orchestrated run update_all, and   *)
(* the buttons of show_update_page that call them (full update, single     *)
(* steps, "factors only", "signal only").                                  *)
(*                                                                         *)
(* Texts are sequences of Unicode code points, so that f-strings, slices   *)
(* and comparisons of messages are computed as Python computes them.       *)
(***************************************************************************)
EXTENDS Integers, Sequences, FiniteSets, TLC

\* ------------------------------------------------------------------ bounds
\* Longest text a child process writes to its error stream in the model.
MaxErrLen == 201

\* Exit codes of a child process range over 0..MaxRc.
MaxRc == 2

\* Browser sessions connected to the dashboard at the same time.
MaxSessions == 2

\* Price rows are dated 1..MaxDate; signals are dated 0..MaxDate, so that a
\* signal can predate every price row.
MaxDate == 2

\* Most rows of the factor data (the price table).
MaxPrices == 2

\* Most rows of the trade-signals table.
MaxSignals == 2

\* The clock of the update page counts days 0..MaxDay.
MaxDay == 2

\* Ages of the data shown in the sidebar and on the home page: 0..MaxAge days.
MaxAge == 4

\* ------------------------------------------------------- program constants
\* result.stderr[:200]: the number of characters of stderr kept in a message.
ErrLimit == 200

\* The number of entries of the steps list of update_all ("[{i}/6]").
NumSteps == 6

\* The number of entries of files_to_check; the first is processed_data_path.
NumFiles == 6

\* None, where a date, a count or an age is expected.
None == -1

\* ------------------------------------------------------------------- texts
\* The text before result.stderr[:200] in step s's return for a non-zero exit code.
\*   1: "数据更新失败: "
\*   2: "数据预处理失败: "
\*   3: "因子工程失败: "
\*   4: "因子分析失败: "
\*   5: "生成轮动得分失败: "
\*   6: "增强回测失败: "
FailPrefix(s) ==
    CASE s = 1 -> <<25968, 25454, 26356, 26032, 22833, 36133, 58, 32>>
      [] s = 2 -> <<25968, 25454, 39044, 22788, 29702, 22833, 36133, 58, 32>>
      [] s = 3 -> <<22240, 23376, 24037, 31243, 22833, 36133, 58, 32>>
      [] s = 4 -> <<22240, 23376, 20998, 26512, 22833, 36133, 58, 32>>
      [] s = 5 -> <<29983, 25104, 36718, 21160, 24471, 20998, 22833, 36133, 58, 32>>
      [] s = 6 -> <<22686, 24378, 22238, 27979, 22833, 36133, 58, 32>>

\* The fixed text step s returns when the exit code is 0.
\*   1: "数据更新成功！"
\*   2: "数据预处理完成！"
\*   3: "技术因子计算完成！"
\*   4: "因子分析完成！"
\*   5: "轮动得分生成完成！"
\*   6: "增强回测完成！"
SuccessMsg(s) ==
    CASE s = 1 -> <<25968, 25454, 26356, 26032, 25104, 21151, 65281>>
      [] s = 2 -> <<25968, 25454, 39044, 22788, 29702, 23436, 25104, 65281>>
      [] s = 3 -> <<25216, 26415, 22240, 23376, 35745, 31639, 23436, 25104, 65281>>
      [] s = 4 -> <<22240, 23376, 20998, 26512, 23436, 25104, 65281>>
      [] s = 5 -> <<36718, 21160, 24471, 20998, 29983, 25104, 23436, 25104, 65281>>
      [] s = 6 -> <<22686, 24378, 22238, 27979, 23436, 25104, 65281>>

\* The text step s returns on subprocess.TimeoutExpired.
\*   1: "更新超时，请检查网络连接"
\*   2: "预处理超时"
\*   3: "因子计算超时"
\*   4: "因子分析超时"
\*   5: "轮动得分生成超时"
\*   6: "增强回测超时"
TimeoutMsg(s) ==
    CASE s = 1 -> <<26356, 26032, 36229, 26102, 65292, 35831, 26816, 26597, 32593, 32476, 36830, 25509>>
      [] s = 2 -> <<39044, 22788, 29702, 36229, 26102>>
      [] s = 3 -> <<22240, 23376, 35745, 31639, 36229, 26102>>
      [] s = 4 -> <<22240, 23376, 20998, 26512, 36229, 26102>>
      [] s = 5 -> <<36718, 21160, 24471, 20998, 29983, 25104, 36229, 26102>>
      [] s = 6 -> <<22686, 24378, 22238, 27979, 36229, 26102>>

\* The text before str(e) in step s's return for any other exception.
\*   1: "更新异常: "
\*   2: "预处理异常: "
\*   3: "因子计算异常: "
\*   4: "因子分析异常: "
\*   5: "轮动得分生成异常: "
\*   6: "增强回测异常: "
ExcPrefix(s) ==
    CASE s = 1 -> <<26356, 26032, 24322, 24120, 58, 32>>
      [] s = 2 -> <<39044, 22788, 29702, 24322, 24120, 58, 32>>
      [] s = 3 -> <<22240, 23376, 35745, 31639, 24322, 24120, 58, 32>>
      [] s = 4 -> <<22240, 23376, 20998, 26512, 24322, 24120, 58, 32>>
      [] s = 5 -> <<36718, 21160, 24471, 20998, 29983, 25104, 24322, 24120, 58, 32>>
      [] s = 6 -> <<22686, 24378, 22238, 27979, 24322, 24120, 58, 32>>

\* The display names of the steps list of update_all.
\*   1: "🔄 增量更新数据"
\*   2: "🔧 预处理数据"
\*   3: "⚙️ 计算因子"
\*   4: "📈 分析因子"
\*   5: "📊 生成信号"
\*   6: "🎯 运行回测"
StepName(s) ==
    CASE s = 1 -> <<128260, 32, 22686, 37327, 26356, 26032, 25968, 25454>>
      [] s = 2 -> <<128295, 32, 39044, 22788, 29702, 25968, 25454>>
      [] s = 3 -> <<9881, 65039, 32, 35745, 31639, 22240, 23376>>
      [] s = 4 -> <<128200, 32, 20998, 26512, 22240, 23376>>
      [] s = 5 -> <<128202, 32, 29983, 25104, 20449, 21495>>
      [] s = 6 -> <<127919, 32, 36816, 34892, 22238, 27979>>

\* the "✅ " of st.success(f"✅ {message}")
OkMark == <<9989, 32>>

\* the "⚠️ " of st.warning
WarnMark == <<9888, 65039, 32>>

\* the "❌ " of st.error(f"❌ {message}")
ErrMark == <<10060, 32>>

\* " (将使用现有数据)": the allowed failure falls back to the existing data
UseExistingSuffix == <<32, 40, 23558, 20351, 29992, 29616, 26377, 25968, 25454, 41>>

\* "步骤" of f"步骤{i}失败: {message}"
StepWord == <<27493, 39588>>

\* "失败: " of f"步骤{i}失败: {message}"
FailedWord == <<22833, 36133, 58, 32>>

\* "全部步骤完成！", the message update_all returns after the loop
AllDoneMsg == <<20840, 37096, 27493, 39588, 23436, 25104, 65281>>

\* "✅ 因子更新完成！" shown when all_success
FactorsDoneMsg == <<9989, 32, 22240, 23376, 26356, 26032, 23436, 25104, 65281>>

\* "执行: " of st.info(f"执行: {name}...")
RunningPrefix == <<25191, 34892, 58, 32>>

\* the trailing "..." of the st.info texts
Dots == <<46, 46, 46>>

\* the tip shown after a failed step-1 button
Step1Tip == <<128161, 32, 25552, 31034, 58, 32, 22914, 26524, 19979, 36733, 22833, 36133, 65292, 21487, 20197, 36339, 36807, 27492, 27493, 39588, 65292, 20351, 29992, 29616, 26377, 25968, 25454, 32487, 32493>>

\* the notice shown after a successful step-6 button
Step6Done == <<127881, 32, 25152, 26377, 27493, 39588, 23436, 25104, 65281, 21487, 20197, 26597, 30475, 26368, 26032, 30340, 22238, 27979, 32467, 26524, 21644, 20080, 21334, 28857, 20102>>

\* str(e) of the UnicodeDecodeError raised by text=True decoding
DecodeErrText == <<39, 117, 116, 102, 45, 56, 39, 32, 99, 111, 100, 101, 99, 32, 99, 97, 110, 39, 116, 32, 100, 101, 99, 111, 100, 101, 32, 98, 121, 116, 101, 32, 48, 120, 102, 102, 32, 105, 110, 32, 112, 111, 115, 105, 116, 105, 111, 110, 32, 48, 58, 32, 105, 110, 118, 97, 108, 105, 100, 32, 115, 116, 97, 114, 116, 32, 98, 121, 116, 101>>

\* str(e) of the FileNotFoundError raised when cwd is missing
NoSuchDirText == <<91, 69, 114, 114, 110, 111, 32, 50, 93, 32, 78, 111, 32, 115, 117, 99, 104, 32, 102, 105, 108, 101, 32, 111, 114, 32, 100, 105, 114, 101, 99, 116, 111, 114, 121>>

\* names of the composite's steps list
FactorStepName(k) ==
    CASE k = 1 -> <<39044, 22788, 29702, 25968, 25454>>
      [] k = 2 -> <<35745, 31639, 22240, 23376>>
      [] k = 3 -> <<20998, 26512, 22240, 23376>>
      [] k = 4 -> <<29983, 25104, 20449, 21495>>

\* ----------------------------------------------------------------- helpers
Min(a, b) == IF a < b THEN a ELSE b

\* Python's s[:n] for n >= 0.
SliceTo(s, n) == SubSeq(s, 1, Min(n, Len(s)))

\* Python's str(n) for an integer n >= 0.
RECURSIVE IntStr(_)
IntStr(n) == IF n < 10 THEN <<48 + n>> ELSE IntStr(n \div 10) \o <<48 + (n % 10)>>

\* One call of a streamlit output function.
Ui(level, text) == [level |-> level, text |-> text]

\* ------------------------------------------------ outcomes of subprocess.run
\* What subprocess.run(..., capture_output=True, text=True, timeout=...) can do:
\*   "oserror": Popen raises before a child exists (cwd or interpreter missing,
\*              permission denied); text is str(e);
\*   "exit":    the child exits with code rc and its output decodes; stderr is
\*              result.stderr;
\*   "decode":  the child exits with code rc, but its captured output is not
\*              valid in the locale's encoding, so decoding it (text=True)
\*              raises UnicodeDecodeError; text is str(e), stderr is what the
\*              child wrote to its error stream;
\*   "timeout": the child is killed after the timeout, TimeoutExpired is raised.
Outcome(kind, rc, stderr, text) ==
    [kind |-> kind, rc |-> rc, stderr |-> stderr, text |-> text]

NoOutcome == Outcome("none", 0, <<>>, <<>>)

\* An error-stream text of n characters; the character at position k is
\* determined by k, so a shifted or over-long slice is told from the right one.
ErrText(n) == [k \in 1..n |-> 97 + (k % 26)]

ErrLens == {0, 2} \cup (ErrLimit..MaxErrLen)

StderrTexts == {ErrText(n) : n \in ErrLens}

ExitCodes == 0..MaxRc

\* str(e) of an exception raised at launch.
LaunchErrTexts == {NoSuchDirText, <<>>}

\* ------------------------------------------------------- the step functions
\* run_step with str(e) left out of the message of the generic except clause.
run_step_no_cause(s, o) ==
    IF o.kind = "timeout"
    THEN [success |-> FALSE, message |-> TimeoutMsg(s)]
    ELSE IF o.kind = "exit"
    THEN IF o.rc # 0
         THEN [success |-> FALSE,
               message |-> FailPrefix(s) \o SliceTo(o.stderr, ErrLimit)]
         ELSE [success |-> TRUE, message |-> SuccessMsg(s)]
    ELSE [success |-> FALSE, message |-> ExcPrefix(s)]

\* run_step without the "except subprocess.TimeoutExpired" clause: the timeout
\* is reported by the generic clause, like any other exception.
run_step_no_timeout_clause(s, o) ==
    IF o.kind = "exit"
    THEN IF o.rc # 0
         THEN [success |-> FALSE,
               message |-> FailPrefix(s) \o SliceTo(o.stderr, ErrLimit)]
         ELSE [success |-> TRUE, message |-> SuccessMsg(s)]
    ELSE [success |-> FALSE, message |-> ExcPrefix(s) \o o.text]

\* The body shared by step1_download_data .. step6_run_enhanced_backtest:
\*   try:    result = subprocess.run(...)
\*           if result.returncode != 0: return False, f"<fail>: {result.stderr[:200]}"
\*           return True, "<success>"
\*   except subprocess.TimeoutExpired: return False, "<timeout>"
\*   except Exception as e:            return False, f"<exception>: {str(e)}"
run_step(s, o) ==
    IF o.kind = "timeout"
    THEN [success |-> FALSE, message |-> TimeoutMsg(s)]
    ELSE IF o.kind = "exit"
    THEN IF o.rc # 0
         THEN [success |-> FALSE,
               message |-> FailPrefix(s) \o SliceTo(o.stderr, ErrLimit)]
         ELSE [success |-> TRUE, message |-> SuccessMsg(s)]
    ELSE [success |-> FALSE, message |-> ExcPrefix(s) \o o.text]

step1_download_data(o) == run_step(1, o)

step2_preprocess_data(o) == run_step(2, o)

step3_factor_engineering(o) == run_step(3, o)

step4_factor_analysis(o) == run_step(4, o)

step5_generate_rotation_scores(o) == run_step(5, o)

step6_run_enhanced_backtest(o) == run_step(6, o)

\* func() for the step function of stage s.
CallStep(s, o) ==
    CASE s = 1 -> step1_download_data(o)
      [] s = 2 -> step2_preprocess_data(o)
      [] s = 3 -> step3_factor_engineering(o)
      [] s = 4 -> step4_factor_analysis(o)
      [] s = 5 -> step5_generate_rotation_scores(o)
      [] s = 6 -> step6_run_enhanced_backtest(o)

\* ---------------------------------------------------------------- update_all
\* steps with the backtest allowed to fail as well.
steps_backtest_optional ==
    << [stage |-> 1, allow_fail |-> TRUE],
       [stage |-> 2, allow_fail |-> FALSE],
       [stage |-> 3, allow_fail |-> FALSE],
       [stage |-> 4, allow_fail |-> FALSE],
       [stage |-> 5, allow_fail |-> FALSE],
       [stage |-> 6, allow_fail |-> TRUE] >>

\* The steps list of update_all: (step function, allow_fail); the names are
\* StepName.
steps ==
    << [stage |-> 1, allow_fail |-> TRUE],
       [stage |-> 2, allow_fail |-> FALSE],
       [stage |-> 3, allow_fail |-> FALSE],
       [stage |-> 4, allow_fail |-> FALSE],
       [stage |-> 5, allow_fail |-> FALSE],
       [stage |-> 6, allow_fail |-> FALSE] >>

\* st.info(f"[{i}/6] {name}...")
update_all_info(k) ==
    Ui("info", <<91>> \o IntStr(k) \o <<47, 48 + NumSteps, 93, 32>> \o StepName(k) \o Dots)

\* update_all_iter with the "return" of a required failure left out: the loop
\* goes on after st.error.
update_all_iter_no_stop(k, res) ==
    IF res.success
    THEN [emit |-> <<Ui("success", OkMark \o res.message)>>, next |-> k + 1]
    ELSE IF steps[k].allow_fail
    THEN [emit |-> <<Ui("warning", WarnMark \o res.message \o UseExistingSuffix)>>,
          next |-> k + 1]
    ELSE [emit |-> <<Ui("error", ErrMark \o res.message)>>, next |-> k + 1]

\* update_all_iter that starts over from the first step after a required
\* failure instead of returning.
update_all_iter_restart(k, res) ==
    IF res.success
    THEN [emit |-> <<Ui("success", OkMark \o res.message)>>, next |-> k + 1]
    ELSE IF steps[k].allow_fail
    THEN [emit |-> <<Ui("warning", WarnMark \o res.message \o UseExistingSuffix)>>,
          next |-> k + 1]
    ELSE [emit |-> <<Ui("error", ErrMark \o res.message)>>, next |-> 1]

\* update_all_iter with allow_fail ignored: every failure stops the run.
update_all_iter_strict(k, res) ==
    IF res.success
    THEN [emit |-> <<Ui("success", OkMark \o res.message)>>, next |-> k + 1]
    ELSE [emit |-> <<Ui("error", ErrMark \o res.message)>>, next |-> 0]

\* update_all_iter that calls the step again after an allowed failure.
update_all_iter_retry(k, res) ==
    IF res.success
    THEN [emit |-> <<Ui("success", OkMark \o res.message)>>, next |-> k + 1]
    ELSE IF steps[k].allow_fail
    THEN [emit |-> <<Ui("warning", WarnMark \o res.message \o UseExistingSuffix)>>,
          next |-> k]
    ELSE [emit |-> <<Ui("error", ErrMark \o res.message)>>, next |-> 0]

\* update_all_iter with the st.warning of an allowed failure left out.
update_all_iter_silent(k, res) ==
    IF res.success
    THEN [emit |-> <<Ui("success", OkMark \o res.message)>>, next |-> k + 1]
    ELSE IF steps[k].allow_fail
    THEN [emit |-> <<>>, next |-> k + 1]
    ELSE [emit |-> <<Ui("error", ErrMark \o res.message)>>, next |-> 0]

\* One pass of the loop body of update_all after func() has returned res at
\* position k (counted from 1, enumerate(steps, 1)): what is shown, and whether
\* the loop goes on to the next position (next = k + 1) or returns (next = 0).
update_all_iter(k, res) ==
    IF res.success
    THEN [emit |-> <<Ui("success", OkMark \o res.message)>>, next |-> k + 1]
    ELSE IF steps[k].allow_fail
    THEN [emit |-> <<Ui("warning", WarnMark \o res.message \o UseExistingSuffix)>>,
          next |-> k + 1]
    ELSE [emit |-> <<Ui("error", ErrMark \o res.message)>>, next |-> 0]

\* update_all_failed with the position counted from 0 (enumerate(steps)).
update_all_failed_from_zero(k, res) ==
    [success |-> FALSE,
     message |-> StepWord \o IntStr(k - 1) \o FailedWord \o res.message]

\* The value update_all returns when it stops at position k with res.
update_all_failed(k, res) ==
    [success |-> FALSE,
     message |-> StepWord \o IntStr(k) \o FailedWord \o res.message]

\* The value update_all returns after the loop.
update_all_done == [success |-> TRUE, message |-> AllDoneMsg]

\* show_update_page, the full-update button after update_all has returned r.
full_update_button(r) ==
    IF r.success
    THEN <<Ui("success", OkMark \o r.message), Ui("balloons", <<>>), Ui("rerun", <<>>)>>
    ELSE <<Ui("error", ErrMark \o r.message)>>

\* ------------------------------------------------------ the other buttons
\* The steps list of the "factors only" button: steps 2, 3, 4, 5.
factor_steps == <<2, 3, 4, 5>>

\* st.info(f"执行: {name}...")
factors_info(k) == Ui("info", RunningPrefix \o FactorStepName(k) \o Dots)

\* factors_iter with the st.error of a failure left out.
factors_iter_quiet(k, res) ==
    IF res.success
    THEN [emit |-> <<Ui("success", OkMark \o res.message)>>,
          all_success |-> TRUE, next |-> k + 1]
    ELSE [emit |-> <<>>, all_success |-> FALSE, next |-> 0]

\* factors_iter with the "break" left out.
factors_iter_no_break(k, res) ==
    IF res.success
    THEN [emit |-> <<Ui("success", OkMark \o res.message)>>,
          all_success |-> TRUE, next |-> k + 1]
    ELSE [emit |-> <<Ui("error", ErrMark \o res.message)>>,
          all_success |-> FALSE, next |-> k + 1]

\* One pass of the loop body of the "factors only" button at position k of
\* factor_steps: what is shown, all_success, and the next position (0: break).
factors_iter(k, res) ==
    IF res.success
    THEN [emit |-> <<Ui("success", OkMark \o res.message)>>,
          all_success |-> TRUE, next |-> k + 1]
    ELSE [emit |-> <<Ui("error", ErrMark \o res.message)>>,
          all_success |-> FALSE, next |-> 0]

\* After the loop: if all_success: st.success("✅ 因子更新完成！"); st.balloons()
factors_end(ok) ==
    IF ok THEN <<Ui("success", FactorsDoneMsg), Ui("balloons", <<>>)>> ELSE <<>>

\* The "signal only" button: step 5 once.
signal_button(res) ==
    IF res.success
    THEN <<Ui("success", OkMark \o res.message), Ui("balloons", <<>>)>>
    ELSE <<Ui("error", ErrMark \o res.message)>>

\* The single-step buttons "执行步骤s", s = 1..6.
step_button(s, res) ==
    IF res.success
    THEN <<Ui("success", OkMark \o res.message)>>
         \o (IF s = 6 THEN <<Ui("balloons", <<>>), Ui("info", Step6Done)>> ELSE <<>>)
    ELSE <<Ui("error", ErrMark \o res.message)>>
         \o (IF s = 1 THEN <<Ui("info", Step1Tip)>> ELSE <<>>)

\* --------------------------------------------------------------------- state
VARIABLES
    DATA_SOURCE,  \* the module-level DATA_SOURCE, os.getenv('DATA_SOURCE', 'github'),
                  \* fixed when the module is loaded: "local" or "github"
    handler,      \* the button whose code runs or ran last: "none", "update_all",
                  \* "factors_only", "signal_only", "step_button"
    pc,           \* "idle": no handler runs; "call": about to call a step
                  \* function; "wait": blocked in subprocess.run
    i,            \* position in the handler's steps list, counted from 1
    button,       \* the step of the single-step button pressed (0: none)
    running,      \* the steps whose child process is alive
    executed,     \* the steps whose function was called in this run, in order
    results,      \* the (success, message) pairs the step functions returned
    lastOut,      \* how the last finished subprocess.run call ended
    shown,        \* the streamlit output calls of this run, in order
    ret,          \* <<>>, or <<r>> with r the pair update_all returned
    all_success,  \* the flag of the "factors only" loop
    sess,         \* per browser session: where its run of the script is
                  \* (pc, handler, i, button as above)
    procs,        \* the child processes alive, each [session, stage]
    signals_df,   \* show_trade_signals: the trade-signals table, rows
                  \* [date, symbol, action]
    factor_data,  \* the factor data read from the first possible path that
                  \* exists: rows [date, symbol, close] in file order
    selected_symbol,  \* the symbol chosen in the selectbox
    trade_view,   \* how far show_trade_signals got: "pending", "table_only",
                  \* "no_file", "no_symbol", "chart"
    price_data,   \* the rows extracted for selected_symbol
    buy_dates,    \* x of the buy markers
    buy_prices,   \* y of the buy markers
    sell_dates,   \* x of the sell markers
    sell_prices,  \* y of the sell markers
    fs,           \* show_update_page: the output files, each [exists, mtime]
    now,          \* the day of datetime.now()
    page,         \* how far the script run of the update page got: "top",
                  \* "buttons", "done", "error"
    status,       \* latest_date, data_count of the top of the page
    status_new,   \* latest_date_new, data_count_new of the bottom of the page
    file_status,  \* the metric shown for each entry of files_to_check
    history,      \* how the "更新历史" section ended: "none" (not reached),
                  \* "skipped", "shown", "raised"
    nav,          \* main: what the script run has rendered: "start", "sidebar",
                  \* then "home" or "files"
    sidebar_note, \* the data age note of the sidebar
    home_note     \* the data age note of the home page

\* The state of the update page's button handlers.
pipeVars == <<handler, pc, i, button, running, executed, results, lastOut, shown,
              ret, all_success>>

\* The state of show_trade_signals.
alignVars == <<signals_df, factor_data, selected_symbol, trade_view, price_data,
               buy_dates, buy_prices, sell_dates, sell_prices>>

\* The state of the status sections of show_update_page.
probeVars == <<fs, now, page, status, status_new, file_status, history>>

\* The data age notes of main and show_home_page.
ageVars == <<nav, sidebar_note, home_note>>

\* What the button handlers of the update page leave alone.
others == <<DATA_SOURCE, sess, procs, alignVars, probeVars, ageVars>>

vars == <<pipeVars, others>>

\* The browser sessions: streamlit runs the script (main, show_update_page) of
\* each session in a thread of its own.
Sessions == 1..MaxSessions

\* A session whose script is not inside a button handler.
IdleSession == [pc |-> "idle", handler |-> "none", i |-> 0, button |-> 0]

\* The values DATA_SOURCE can have ('github' is the default).
DataSources == {"local", "github"}

\* The entries of files_to_check, by position.
Files == 1..NumFiles

\* A path that does not exist.
AbsentFile == [exists |-> FALSE, mtime |-> 0]

\* (None, None) of load_data_status.
NoStatus == [latest_date |-> None, data_count |-> None]

\* A metric of the file status section that has not been rendered.
NotShown == [kind |-> "none", days_old |-> None, color |-> "none"]

\* The status sections before the script run of the update page renders them.
ProbeIdle ==
    /\ page = "top"
    /\ status = NoStatus
    /\ status_new = NoStatus
    /\ file_status = [f \in Files |-> NotShown]
    /\ history = "none"

\* No data age note: nothing rendered yet, or "未找到数据".
NoNote == [bucket |-> "none", advice |-> FALSE]

\* The sidebar and the home page before the script run renders them.
AgeIdle ==
    /\ nav = "start"
    /\ sidebar_note = NoNote
    /\ home_note = NoNote

\* factor_data = None: no file has been read.
NoFactorData == [loaded |-> FALSE, rows |-> <<>>]

Stages == 1..NumSteps

Init ==
    /\ DATA_SOURCE \in DataSources
    /\ handler = "none"
    /\ pc = "idle"
    /\ i = 0
    /\ button = 0
    /\ running = {}
    /\ executed = <<>>
    /\ results = <<>>
    /\ lastOut = NoOutcome
    /\ shown = <<>>
    /\ ret = <<>>
    /\ all_success = FALSE
    /\ sess = [u \in Sessions |-> IdleSession]
    /\ procs = {}
    /\ signals_df = <<>>
    /\ factor_data = NoFactorData
    /\ selected_symbol = "none"
    /\ trade_view = "pending"
    /\ price_data = <<>>
    /\ buy_dates = <<>>
    /\ buy_prices = <<>>
    /\ sell_dates = <<>>
    /\ sell_prices = <<>>
    /\ fs \in {g \in [Files -> {AbsentFile, [exists |-> TRUE, mtime |-> 0]}] :
                 \A f \in Files \ {1} : g[f] = AbsentFile}
    /\ now = 0
    /\ ProbeIdle
    /\ AgeIdle

\* update_all_pass looking for the existing data before it goes on after an
\* allowed failure, and returning when there is none.
update_all_pass_probing(k, res) ==
    IF ~res.success /\ steps[k].allow_fail /\ ~fs[1].exists
    THEN [emit |-> <<Ui("error", ErrMark \o res.message)>>, next |-> 0]
    ELSE update_all_iter(k, res)

\* The loop body as update_all runs it: it reads success, message and
\* allow_fail, and no file.
update_all_pass(k, res) == update_all_iter(k, res)

\* The step handler h calls at position k (b: the step of a single-step button).
StageAt(h, k, b) ==
    CASE h = "update_all" -> steps[k].stage
      [] h = "factors_only" -> factor_steps[k]
      [] h = "signal_only" -> 5
      [] h = "step_button" -> b

\* The step the handler is at.
CurStage == StageAt(handler, i, button)

\* What the handler shows before it calls the step function.
InfoBefore ==
    CASE handler = "update_all" -> <<update_all_info(i)>>
      [] handler = "factors_only" -> <<factors_info(i)>>
      [] OTHER -> <<>>

\* A press of a button starts its handler: nothing of the run has happened yet.
\* show_update_page creates every button unconditionally: neither main nor
\* show_update_page reads DATA_SOURCE.
Start(h, b, flag) ==
    /\ pc = "idle"
    /\ handler' = h
    /\ pc' = "call"
    /\ i' = 1
    /\ button' = b
    /\ executed' = <<>>
    /\ results' = <<>>
    /\ shown' = <<>>
    /\ ret' = <<>>
    /\ all_success' = flag
    /\ UNCHANGED <<running, lastOut>>
    /\ UNCHANGED others

\* "开始完整更新": success, message = dashboard.update_all()
ClickUpdateAll == Start("update_all", 0, FALSE)

\* "只更新因子（跳过下载）": all_success = True, then the loop over factor_steps
ClickFactorsOnly == Start("factors_only", 0, TRUE)

\* "只生成信号（跳过因子计算）"
ClickSignalOnly == Start("signal_only", 0, FALSE)

\* "执行步骤s"
ClickStep(s) == Start("step_button", s, FALSE)

\* The step function has returned (its subprocess.run ended as o); the handler
\* runs on to its next call of a step function or to its end. sh is what has
\* been shown so far.
Finish(o, sh) ==
    LET s == CurStage
        res == CallStep(s, o)
    IN  /\ results' = Append(results, [stage |-> s, success |-> res.success,
                                       message |-> res.message])
        /\ lastOut' = o
        /\ UNCHANGED <<handler, button>>
        /\ UNCHANGED others
        /\ CASE handler = "update_all" ->
                  LET it == update_all_pass(i, res)
                      r == IF it.next = 0 THEN update_all_failed(i, res)
                                          ELSE update_all_done
                  IN  IF it.next # 0 /\ it.next <= Len(steps)
                      THEN /\ shown' = sh \o it.emit
                           /\ i' = it.next
                           /\ pc' = "call"
                           /\ UNCHANGED <<ret, all_success>>
                      ELSE /\ shown' = sh \o it.emit \o full_update_button(r)
                           /\ ret' = <<r>>
                           /\ pc' = "idle"
                           /\ UNCHANGED <<i, all_success>>
             [] handler = "factors_only" ->
                  LET it == factors_iter(i, res)
                  IN  IF it.next # 0 /\ it.next <= Len(factor_steps)
                      THEN /\ shown' = sh \o it.emit
                           /\ i' = it.next
                           /\ pc' = "call"
                           /\ all_success' = it.all_success
                           /\ UNCHANGED ret
                      ELSE /\ shown' = sh \o it.emit \o factors_end(it.all_success)
                           /\ all_success' = it.all_success
                           /\ pc' = "idle"
                           /\ UNCHANGED <<i, ret>>
             [] handler = "signal_only" ->
                  /\ shown' = sh \o signal_button(res)
                  /\ pc' = "idle"
                  /\ UNCHANGED <<i, ret, all_success>>
             [] handler = "step_button" ->
                  /\ shown' = sh \o step_button(s, res)
                  /\ pc' = "idle"
                  /\ UNCHANGED <<i, ret, all_success>>

\* The handler calls the step function, whose subprocess.run starts the child
\* and blocks.
Spawn ==
    /\ pc = "call"
    /\ executed' = Append(executed, CurStage)
    /\ shown' = shown \o InfoBefore
    /\ running' = running \cup {CurStage}
    /\ pc' = "wait"
    /\ UNCHANGED <<handler, i, button, results, lastOut, ret, all_success>>
    /\ UNCHANGED others

\* The handler calls the step function, whose subprocess.run raises before a
\* child exists.
LaunchFail(text) ==
    /\ pc = "call"
    /\ executed' = Append(executed, CurStage)
    /\ UNCHANGED running
    /\ Finish(Outcome("oserror", 0, <<>>, text), shown \o InfoBefore)

\* The child exits with code rc, having written err to its error stream.
ProcExit(rc, err) ==
    /\ pc = "wait"
    /\ running' = running \ {CurStage}
    /\ UNCHANGED executed
    /\ Finish(Outcome("exit", rc, err, <<>>), shown)

\* The child exits with code rc, and its captured output does not decode.
ProcExitUndecodable(rc, err) ==
    /\ pc = "wait"
    /\ running' = running \ {CurStage}
    /\ UNCHANGED executed
    /\ Finish(Outcome("decode", rc, err, DecodeErrText), shown)

\* The timeout elapses: subprocess.run kills the child and raises TimeoutExpired.
ProcTimeout ==
    /\ pc = "wait"
    /\ running' = running \ {CurStage}
    /\ UNCHANGED executed
    /\ Finish(Outcome("timeout", 0, <<>>, <<>>), shown)

Next ==
    \/ ClickUpdateAll
    \/ ClickFactorsOnly
    \/ ClickSignalOnly
    \/ \E s \in Stages : ClickStep(s)
    \/ Spawn
    \/ \E t \in LaunchErrTexts : LaunchFail(t)
    \/ \E rc \in ExitCodes, err \in StderrTexts : ProcExit(rc, err)
    \/ \E rc \in ExitCodes, err \in StderrTexts : ProcExitUndecodable(rc, err)
    \/ ProcTimeout

Spec == Init /\ [][Next]_vars

\* The thread of a handler that is about to call a step function calls it.
CallNow == Spawn \/ \E t \in LaunchErrTexts : LaunchFail(t)

\* The handlers under the scheduling the code relies on: a running handler
\* goes on to its next call, and subprocess.run(..., timeout=300 or 600) is cut
\* off at its timeout unless the child has exited before.
SpecLive == Init /\ [][Next]_vars /\ WF_vars(CallNow) /\ WF_vars(ProcTimeout)

\* ------------------------------------------------- several browser sessions
\* The same handlers, run by several sessions at once. Nothing in app.py is
\* shared between the script runs of two sessions (no lock, no flag in
\* st.session_state, no "disabled=" on a button): each run only blocks its own
\* thread. What a run shows is left out here; which steps it calls is computed
\* by the same update_all_iter, factors_iter and step functions.

\* How a subprocess.run call can end, with an empty error stream.
SessOutcomes ==
    {Outcome("exit", rc, <<>>, <<>>) : rc \in ExitCodes}
    \cup {Outcome("decode", 0, <<>>, DecodeErrText), Outcome("timeout", 0, <<>>, <<>>)}

\* The position handler h goes to after the step at position k returned res
\* (0: the handler ends).
NextPosition(h, k, res) ==
    CASE h = "update_all" ->
            LET n == update_all_iter(k, res).next
            IN  IF n # 0 /\ n <= Len(steps) THEN n ELSE 0
      [] h = "factors_only" ->
            LET n == factors_iter(k, res).next
            IN  IF n # 0 /\ n <= Len(factor_steps) THEN n ELSE 0
      [] OTHER -> 0

\* The child of session u's current step.
SessChild(u) ==
    [session |-> u, stage |-> StageAt(sess[u].handler, sess[u].i, sess[u].button)]

\* Session u presses a button of its page; its script is not in a handler.
SessClick(u, h, b) ==
    /\ sess[u].pc = "idle"
    /\ sess' = [sess EXCEPT ![u] = [pc |-> "call", handler |-> h, i |-> 1, button |-> b]]
    /\ UNCHANGED <<procs, DATA_SOURCE, pipeVars, alignVars, probeVars, ageVars>>

\* The handler of session u calls its step function; subprocess.run starts the
\* child and blocks the session's thread.
SessSpawn(u) ==
    /\ sess[u].pc = "call"
    /\ procs' = procs \cup {SessChild(u)}
    /\ sess' = [sess EXCEPT ![u].pc = "wait"]
    /\ UNCHANGED <<DATA_SOURCE, pipeVars, alignVars, probeVars, ageVars>>

\* The step function of session u returns res; the handler goes on or ends.
SessAfter(u, res) ==
    LET n == NextPosition(sess[u].handler, sess[u].i, res)
    IN  sess' = [sess EXCEPT ![u].pc = IF n = 0 THEN "idle" ELSE "call",
                             ![u].i = IF n = 0 THEN @ ELSE n]

\* subprocess.run of session u raises before a child exists.
SessLaunchFail(u, text) ==
    /\ sess[u].pc = "call"
    /\ SessAfter(u, CallStep(SessChild(u).stage, Outcome("oserror", 0, <<>>, text)))
    /\ UNCHANGED <<procs, DATA_SOURCE, pipeVars, alignVars, probeVars, ageVars>>

\* The child of session u exits or is killed at its timeout.
SessProcEnd(u, o) ==
    /\ sess[u].pc = "wait"
    /\ procs' = procs \ {SessChild(u)}
    /\ SessAfter(u, CallStep(SessChild(u).stage, o))
    /\ UNCHANGED <<DATA_SOURCE, pipeVars, alignVars, probeVars, ageVars>>

NextSessions ==
    \/ \E u \in Sessions : SessClick(u, "update_all", 0)
    \/ \E u \in Sessions : SessClick(u, "factors_only", 0)
    \/ \E u \in Sessions : SessClick(u, "signal_only", 0)
    \/ \E u \in Sessions, s \in Stages : SessClick(u, "step_button", s)
    \/ \E u \in Sessions : SessSpawn(u)
    \/ \E u \in Sessions, t \in LaunchErrTexts : SessLaunchFail(u, t)
    \/ \E u \in Sessions, o \in SessOutcomes : SessProcEnd(u, o)

SpecSessions == Init /\ [][NextSessions]_vars

\* ------------------------------------------------------ show_trade_signals
\* The chart of buy and sell markers of show_trade_signals: the signals of the
\* selected symbol are placed on that symbol's price series.
Symbols == {"X", "Y"}

SignalActions == {"BUY", "SELL"}

Dates == 1..MaxDate

SignalDates == 0..MaxDate

\* The close of the row of symbol sym at date d; every row of the tables drawn
\* has a close of its own, so a price tells which row it was read from.
CloseOf(d, sym) == 10 * d + (IF sym = "X" THEN 0 ELSE 5)

\* The sequences over S of at most n elements.
SeqsUpTo(S, n) == UNION {[1..k -> S] : k \in 0..n}

\* The tables the factor data file can hold: keyed by (date, symbol), rows in
\* any order.
PriceTables ==
    LET keys == Dates \X Symbols
        ks == {t \in SeqsUpTo(keys, MaxPrices) :
                 \A a, b \in 1..Len(t) : a # b => t[a] # t[b]}
    IN  {[k \in 1..Len(t) |-> [date |-> t[k][1], symbol |-> t[k][2],
                               close |-> CloseOf(t[k][1], t[k][2])]] : t \in ks}

\* The trade-signals tables: at least one row, one signal for a symbol and a
\* date, rows in any order.
SignalTables ==
    {t \in SeqsUpTo([date : SignalDates, symbol : Symbols, action : SignalActions],
                    MaxSignals) \ {<<>>} :
        \A a, b \in 1..Len(t) :
            a # b => (t[a].date # t[b].date \/ t[a].symbol # t[b].symbol)}

\* df[mask], the rows of a table that pass a test in the table's order, is
\* SelectSeq.
\* df.head(1)
Head1(t) == IF t = <<>> THEN <<>> ELSE <<Head(t)>>

\* signals_df[signals_df['symbol'] == selected_symbol]
symbol_signals_of(sigs, sym) == SelectSeq(sigs, LAMBDA r : r.symbol = sym)

\* factor_data.index.get_level_values('symbol').unique()
available_symbols(fd) == {fd[k].symbol : k \in 1..Len(fd)}

\* price_data_of with the symbol left out of the key.
price_data_all_symbols(fd, sym) == fd

\* factor_data.loc[(slice(None), selected_symbol), 'close'].reset_index()
price_data_of(fd, sym) == SelectSeq(fd, LAMBDA r : r.symbol = sym)

\* symbol_signals[symbol_signals['action'] == a]
signals_with_action(sigs, a) == SelectSeq(sigs, LAMBDA r : r.action = a)

\* price_match_of finding nothing, so that every price is looked up forward.
price_match_none(pd, signal_date) == <<>>

\* price_data[price_data['date'] == signal_date]
price_match_of(pd, signal_date) == SelectSeq(pd, LAMBDA r : r.date = signal_date)

\* nearest_of with the date test left out.
nearest_any(pd, signal_date) == Head1(pd)

\* nearest_of looking backward: '<=' for '>='.
nearest_backward(pd, signal_date) ==
    Head1(SelectSeq(pd, LAMBDA r : r.date <= signal_date))

\* price_data[price_data['date'] >= signal_date].head(1)
nearest_of(pd, signal_date) == Head1(SelectSeq(pd, LAMBDA r : r.date >= signal_date))

\* marker_date with the date of the row the price is read from.
marker_date_of_row(signal_date, row) == row.date

\* The date appended to buy_dates / sell_dates for a marker whose price is
\* read from row: always signal_date.
marker_date(signal_date, row) == signal_date

\* The loop over buy_signals.iterrows(): buy_prices and buy_dates.
RECURSIVE buy_loop(_, _)
buy_loop(pd, sigs) ==
    IF sigs = <<>> THEN [dates |-> <<>>, prices |-> <<>>]
    ELSE LET signal_date == Head(sigs).date
             price_match == price_match_of(pd, signal_date)
             nearest == nearest_of(pd, signal_date)
             rest == buy_loop(pd, Tail(sigs))
         IN  IF Len(price_match) > 0
             THEN [dates |-> <<marker_date(signal_date, price_match[1])>> \o rest.dates,
                   prices |-> <<price_match[1].close>> \o rest.prices]
             ELSE IF Len(nearest) > 0
             THEN [dates |-> <<marker_date(signal_date, nearest[1])>> \o rest.dates,
                   prices |-> <<nearest[1].close>> \o rest.prices]
             ELSE rest

\* sell_loop without the forward lookup: only exact dates get a marker.
RECURSIVE sell_loop_exact_only(_, _)
sell_loop_exact_only(pd, sigs) ==
    IF sigs = <<>> THEN [dates |-> <<>>, prices |-> <<>>]
    ELSE LET signal_date == Head(sigs).date
             price_match == price_match_of(pd, signal_date)
             rest == sell_loop_exact_only(pd, Tail(sigs))
         IN  IF Len(price_match) > 0
             THEN [dates |-> <<marker_date(signal_date, price_match[1])>> \o rest.dates,
                   prices |-> <<price_match[1].close>> \o rest.prices]
             ELSE rest

\* The loop over sell_signals.iterrows(): sell_prices and sell_dates.
RECURSIVE sell_loop(_, _)
sell_loop(pd, sigs) ==
    IF sigs = <<>> THEN [dates |-> <<>>, prices |-> <<>>]
    ELSE LET signal_date == Head(sigs).date
             price_match == price_match_of(pd, signal_date)
             nearest == nearest_of(pd, signal_date)
             rest == sell_loop(pd, Tail(sigs))
         IN  IF Len(price_match) > 0
             THEN [dates |-> <<marker_date(signal_date, price_match[1])>> \o rest.dates,
                   prices |-> <<price_match[1].close>> \o rest.prices]
             ELSE IF Len(nearest) > 0
             THEN [dates |-> <<marker_date(signal_date, nearest[1])>> \o rest.dates,
                   prices |-> <<nearest[1].close>> \o rest.prices]
             ELSE rest

\* The signals table and the selection when show_trade_signals is entered: the
\* selectbox offers the symbols of signals_df.
InitAlign ==
    /\ DATA_SOURCE \in DataSources
    /\ handler = "none"
    /\ pc = "idle"
    /\ i = 0
    /\ button = 0
    /\ running = {}
    /\ executed = <<>>
    /\ results = <<>>
    /\ lastOut = NoOutcome
    /\ shown = <<>>
    /\ ret = <<>>
    /\ all_success = FALSE
    /\ sess = [u \in Sessions |-> IdleSession]
    /\ procs = {}
    /\ signals_df \in SignalTables
    /\ factor_data = NoFactorData
    /\ selected_symbol \in {signals_df[k].symbol : k \in 1..Len(signals_df)}
    /\ trade_view = "pending"
    /\ price_data = <<>>
    /\ buy_dates = <<>>
    /\ buy_prices = <<>>
    /\ sell_dates = <<>>
    /\ sell_prices = <<>>
    /\ fs = [f \in Files |-> AbsentFile]
    /\ now = 0
    /\ ProbeIdle
    /\ AgeIdle

\* What every branch of show_trade_signals leaves alone.
AlignFrame ==
    UNCHANGED <<DATA_SOURCE, pipeVars, sess, procs, signals_df, selected_symbol,
                probeVars, ageVars>>

\* show_trade_signals returns before the chart: nothing is extracted or marked.
AlignReturn(view) ==
    /\ trade_view' = view
    /\ UNCHANGED <<price_data, buy_dates, buy_prices, sell_dates, sell_prices>>
    /\ AlignFrame

\* pd.read_pickle(path) of the first possible path that exists.
ReadFactorData(t) == factor_data' = [loaded |-> TRUE, rows |-> t]

\* if DATA_SOURCE == 'github': only the table is shown.
ShowTableOnly ==
    /\ trade_view = "pending"
    /\ DATA_SOURCE = "github"
    /\ UNCHANGED factor_data
    /\ AlignReturn("table_only")

\* No factor data file at either path: st.error and return.
ShowNoFile ==
    /\ trade_view = "pending"
    /\ DATA_SOURCE # "github"
    /\ UNCHANGED factor_data
    /\ AlignReturn("no_file")

\* selected_symbol not in available_symbols: st.warning and return.
ShowNoSymbol(t) ==
    /\ trade_view = "pending"
    /\ DATA_SOURCE # "github"
    /\ ReadFactorData(t)
    /\ selected_symbol \notin available_symbols(t)
    /\ AlignReturn("no_symbol")

\* The chart: the price series and the buy and sell markers.
ShowChart(t) ==
    /\ trade_view = "pending"
    /\ DATA_SOURCE # "github"
    /\ ReadFactorData(t)
    /\ selected_symbol \in available_symbols(t)
    /\ LET symbol_signals == symbol_signals_of(signals_df, selected_symbol)
           pd == price_data_of(t, selected_symbol)
           buy == buy_loop(pd, signals_with_action(symbol_signals, "BUY"))
           sell == sell_loop(pd, signals_with_action(symbol_signals, "SELL"))
       IN  /\ price_data' = pd
           /\ buy_dates' = buy.dates
           /\ buy_prices' = buy.prices
           /\ sell_dates' = sell.dates
           /\ sell_prices' = sell.prices
    /\ trade_view' = "chart"
    /\ AlignFrame

NextAlign ==
    \/ ShowTableOnly
    \/ ShowNoFile
    \/ trade_view = "pending" /\ \E t \in PriceTables : ShowNoSymbol(t)
    \/ trade_view = "pending" /\ \E t \in PriceTables : ShowChart(t)

SpecAlign == InitAlign /\ [][NextAlign]_vars

\* ------------------------------------------- the status of the output files
\* The two status sections of show_update_page, at the top and at the bottom
\* of the page, with the buttons and the step processes they start in between.
Days == 0..MaxDay

\* A file written on day m.
FileOn(m) == [exists |-> TRUE, mtime |-> m]

\* The data of processed_data_path written on day m: a row a day up to m.
read_pickle(file) == [latest_date |-> file.mtime, data_count |-> file.mtime + 1]

\* RotationDashboard.load_data_status()
load_data_status(file) ==
    IF ~file.exists THEN NoStatus ELSE read_pickle(file)

\* load_data_status_new giving again what the first call returned.
load_data_status_cached(file, before) == before

\* The second call of load_data_status, at the bottom of the page; before is
\* what the first call returned.
load_data_status_new(file, before) == load_data_status(file)

\* os.path.getmtime(path): raises for a path that does not exist.
getmtime(file) ==
    IF file.exists THEN [raised |-> FALSE, mtime |-> file.mtime]
    ELSE [raised |-> TRUE, mtime |-> None]

\* The metric of a file that exists: its age in days and the colour of the age.
file_age_status(file, today) ==
    LET mtime == getmtime(file)
        days_old == today - mtime.mtime
    IN  IF mtime.raised THEN [kind |-> "raised", days_old |-> None, color |-> "none"]
        ELSE [kind |-> "present", days_old |-> days_old,
              color |-> IF days_old = 0 THEN "green"
                        ELSE IF days_old <= 1 THEN "yellow" ELSE "red"]

\* file_status_of without the path.exists() test.
file_status_unguarded(file, today) == file_age_status(file, today)

\* The body of the loop over files_to_check.
file_status_of(file, today) ==
    IF file.exists THEN file_age_status(file, today)
    ELSE [kind |-> "absent", days_old |-> None, color |-> "cross"]

\* load_rotation_scores(): None, or the table. ok: pd.read_csv and the
\* conversion of the date column went through.
load_rotation_scores(source, file, ok) ==
    IF source = "github"
    THEN [none |-> ~ok]
    ELSE IF ~file.exists THEN [none |-> TRUE] ELSE [none |-> ~ok]

\* The "更新历史" section of show_update_page: entered when the file of
\* rotation scores exists; scores_df['date'] raises TypeError when the loader
\* returned None.
update_history(source, file, ok) ==
    IF ~file.exists THEN "skipped"
    ELSE IF load_rotation_scores(source, file, ok).none THEN "raised"
    ELSE "shown"

\* The files on disk and the day when the update page is opened: no file is
\* newer than today.
InitProbe ==
    /\ DATA_SOURCE \in DataSources
    /\ handler = "none"
    /\ pc = "idle"
    /\ i = 0
    /\ button = 0
    /\ running = {}
    /\ executed = <<>>
    /\ results = <<>>
    /\ lastOut = NoOutcome
    /\ shown = <<>>
    /\ ret = <<>>
    /\ all_success = FALSE
    /\ sess = [u \in Sessions |-> IdleSession]
    /\ procs = {}
    /\ signals_df = <<>>
    /\ factor_data = NoFactorData
    /\ selected_symbol = "none"
    /\ trade_view = "pending"
    /\ price_data = <<>>
    /\ buy_dates = <<>>
    /\ buy_prices = <<>>
    /\ sell_dates = <<>>
    /\ sell_prices = <<>>
    /\ now \in Days
    /\ fs \in [Files -> {AbsentFile} \cup {FileOn(m) : m \in 0..now}]
    /\ ProbeIdle
    /\ AgeIdle

\* What the update page's status sections leave alone.
ProbeFrame == UNCHANGED <<DATA_SOURCE, pipeVars, sess, procs, alignVars, ageVars>>

\* The top of the page: "当前数据状态".
ProbeTop ==
    /\ page = "top"
    /\ status' = load_data_status(fs[1])
    /\ page' = "buttons"
    /\ UNCHANGED <<fs, now, status_new, file_status, history>>
    /\ ProbeFrame

\* A step process started by a button of the page writes file f.
StageWrites(f) ==
    /\ page = "buttons"
    /\ fs' = [fs EXCEPT ![f] = FileOn(now)]
    /\ UNCHANGED <<now, page, status, status_new, file_status, history>>
    /\ ProbeFrame

\* A step process started by a button of the page removes file f.
StageRemoves(f) ==
    /\ page = "buttons"
    /\ fs[f].exists
    /\ fs' = [fs EXCEPT ![f] = AbsentFile]
    /\ UNCHANGED <<now, page, status, status_new, file_status, history>>
    /\ ProbeFrame

\* Midnight passes while the page is open.
Tick ==
    /\ page \in {"top", "buttons"}
    /\ now < MaxDay
    /\ now' = now + 1
    /\ UNCHANGED <<fs, page, status, status_new, file_status, history>>
    /\ ProbeFrame

\* The bottom of the page: "当前数据状态" again, then "输出文件状态", then
\* "更新历史". ok: the table of rotation scores could be read.
ProbeBottom(ok) ==
    /\ page = "buttons"
    /\ status_new' = load_data_status_new(fs[1], status)
    /\ file_status' = [f \in Files |-> file_status_of(fs[f], now)]
    /\ page' = IF \E f \in Files : file_status'[f].kind = "raised"
               THEN "error" ELSE "done"
    /\ history' = IF page' = "error" THEN "none"
                  ELSE update_history(DATA_SOURCE, fs[4], ok)
    /\ UNCHANGED <<fs, now, status>>
    /\ ProbeFrame

\* Any interaction runs the script again from the top.
Rerun ==
    /\ page = "done"
    /\ page' = "top"
    /\ status' = NoStatus
    /\ status_new' = NoStatus
    /\ file_status' = [f \in Files |-> NotShown]
    /\ history' = "none"
    /\ UNCHANGED <<fs, now>>
    /\ ProbeFrame

NextProbe ==
    \/ ProbeTop
    \/ \E f \in Files : StageWrites(f)
    \/ \E f \in Files : StageRemoves(f)
    \/ Tick
    \/ \E ok \in BOOLEAN : ProbeBottom(ok)
    \/ Rerun

SpecProbe == InitProbe /\ [][NextProbe]_vars

\* -------------------------------------------------------- the data age notes
\* main renders the sidebar with the age of the data, then the page chosen in
\* it: the home page, with the age of the data again, or the update page, with
\* the age of every output file.
\* sidebar_age_note with the thresholds of the file status section.
sidebar_age_note_as_files(days_old) ==
    IF days_old = 0 THEN [bucket |-> "fresh", advice |-> FALSE]
    ELSE IF days_old <= 1 THEN [bucket |-> "aging", advice |-> FALSE]
    ELSE [bucket |-> "stale", advice |-> TRUE]

\* main: "🟢 数据很新", "🟡 数据较新", or "🔴 数据较旧" with "建议立即更新！".
sidebar_age_note(days_old) ==
    IF days_old <= 1 THEN [bucket |-> "fresh", advice |-> FALSE]
    ELSE IF days_old <= 3 THEN [bucket |-> "aging", advice |-> FALSE]
    ELSE [bucket |-> "stale", advice |-> TRUE]

\* show_home_page: "数据很新，可以直接使用", "数据较新，建议更新到最新", or
\* "数据较旧，强烈建议更新".
home_age_note(days_old) ==
    IF days_old <= 1 THEN [bucket |-> "fresh", advice |-> FALSE]
    ELSE IF days_old <= 3 THEN [bucket |-> "aging", advice |-> TRUE]
    ELSE [bucket |-> "stale", advice |-> TRUE]

\* if latest_date and scores_df is not None
data_loaded(st, scores) == st.latest_date # None /\ ~scores.none

\* The files on disk and the day when a script run starts: the data file, the
\* rotation scores and one more output file, none newer than today.
InitAge ==
    /\ DATA_SOURCE \in DataSources
    /\ handler = "none"
    /\ pc = "idle"
    /\ i = 0
    /\ button = 0
    /\ running = {}
    /\ executed = <<>>
    /\ results = <<>>
    /\ lastOut = NoOutcome
    /\ shown = <<>>
    /\ ret = <<>>
    /\ all_success = FALSE
    /\ sess = [u \in Sessions |-> IdleSession]
    /\ procs = {}
    /\ signals_df = <<>>
    /\ factor_data = NoFactorData
    /\ selected_symbol = "none"
    /\ trade_view = "pending"
    /\ price_data = <<>>
    /\ buy_dates = <<>>
    /\ buy_prices = <<>>
    /\ sell_dates = <<>>
    /\ sell_prices = <<>>
    /\ now \in 0..MaxAge
    /\ fs \in {g \in [Files -> {AbsentFile} \cup {FileOn(m) : m \in 0..now}] :
                 \A f \in Files \ {1, 2, 4} : g[f] = AbsentFile}
    /\ ProbeIdle
    /\ AgeIdle

\* What the script run leaves alone.
AgeFrame == UNCHANGED <<DATA_SOURCE, pipeVars, sess, procs, alignVars, fs, now, page,
                        status_new, history>>

\* main: the "📊 数据状态" section of the sidebar.
ShowSidebar(ok) ==
    /\ nav = "start"
    /\ LET st == load_data_status(fs[1])
           scores_df == load_rotation_scores(DATA_SOURCE, fs[4], ok)
       IN  /\ status' = st
           /\ sidebar_note' = IF data_loaded(st, scores_df)
                               THEN sidebar_age_note(now - st.latest_date)
                               ELSE NoNote
    /\ nav' = "sidebar"
    /\ UNCHANGED <<home_note, file_status>>
    /\ AgeFrame

\* show_home_page: the "📊 当前数据状态" section.
ShowHome(ok) ==
    /\ nav = "sidebar"
    /\ LET st == load_data_status(fs[1])
           scores_df == load_rotation_scores(DATA_SOURCE, fs[4], ok)
       IN  /\ status' = st
           /\ home_note' = IF data_loaded(st, scores_df)
                            THEN home_age_note(now - st.latest_date)
                            ELSE NoNote
    /\ nav' = "home"
    /\ UNCHANGED <<sidebar_note, file_status>>
    /\ AgeFrame

\* show_update_page: the "📁 输出文件状态" section.
ShowFiles ==
    /\ nav = "sidebar"
    /\ file_status' = [f \in Files |-> file_status_of(fs[f], now)]
    /\ nav' = "files"
    /\ UNCHANGED <<status, sidebar_note, home_note>>
    /\ AgeFrame

NextAge ==
    \/ \E ok \in BOOLEAN : ShowSidebar(ok)
    \/ \E ok \in BOOLEAN : ShowHome(ok)
    \/ ShowFiles

SpecAge == InitAge /\ [][NextAge]_vars

\* ------------------------------------------------------------------ claims
\* t occurs in s as a contiguous run of characters (Python's "t in s").
Contains(s, t) ==
    \E k \in 0..(Len(s) - Len(t)) : SubSeq(s, k + 1, k + Len(t)) = t

\* The last (success, message) pair a step function returned in this run.
LastResult == results[Len(results)]

\* The position a failure message "步骤{i}失败: ..." of update_all names.
ReportedStep(msg) == msg[Len(StepWord) + 1] - 48

\* Position k of this run's results is a failure.
FailedAt(k) == k \in 1..Len(results) /\ ~results[k].success

\* The last child process ended by exiting (whether or not its output decoded).
ChildExited == Len(results) > 0 /\ lastOut.kind \in {"exit", "decode"}

\* C1: in update_all, a failure of a stage with allow_fail = false at position
\* k ends the run there: the run has returned failure naming position k, and
\* exactly k stages were executed (none after k).
C1_FailFast ==
    handler = "update_all" =>
        \A k \in 1..Len(results) :
            (FailedAt(k) /\ ~steps[k].allow_fail) =>
                /\ pc = "idle"
                /\ running = {}
                /\ ret # <<>>
                /\ ~ret[1].success
                /\ ReportedStep(ret[1].message) = k
                /\ Len(executed) = k
                /\ Len(results) = k

\* C1 witness: step 4 (required) failed after step 1 (allowed) had failed too.
C1_Witness ==
    /\ handler = "update_all"
    /\ pc = "idle"
    /\ FailedAt(1)
    /\ FailedAt(4)
    /\ ReportedStep(ret[1].message) = 4

\* C2: an update_all run in which every failing stage has allow_fail = true
\* (or no stage fails) returns success, having executed every stage of the
\* list exactly once, in the declared order.
C2_AllowedFailuresSucceed ==
    ( /\ handler = "update_all"
      /\ pc = "idle"
      /\ \A k \in 1..Len(results) : FailedAt(k) => steps[k].allow_fail )
    =>  /\ ret # <<>>
        /\ ret[1].success
        /\ Len(executed) = Len(steps)
        /\ \A k \in 1..Len(steps) : executed[k] = steps[k].stage
        /\ Len(results) = Len(steps)
        /\ \A k \in 1..Len(steps) : results[k].stage = steps[k].stage

\* C2 witness: a finished run whose download step failed and which succeeded.
C2_Witness ==
    /\ handler = "update_all"
    /\ pc = "idle"
    /\ FailedAt(1)
    /\ Len(results) = Len(steps)
    /\ ret[1].success

\* The run of C3: A = step 1 (allow_fail, fails), B = step 2 (succeeds),
\* C = step 3 (required, fails).
C3_Scenario ==
    /\ handler = "update_all"
    /\ Len(results) >= 3
    /\ FailedAt(1)
    /\ results[2].success
    /\ FailedAt(3)

\* C3 as claimed: the run fails with failure index 2 (C counted from 0), three
\* outcomes are recorded and nothing is executed after C.
C3_Original ==
    C3_Scenario =>
        /\ ret # <<>>
        /\ ~ret[1].success
        /\ ReportedStep(ret[1].message) = 2
        /\ Len(results) = 3
        /\ executed = <<1, 2, 3>>

\* C3 amended: the run fails and reports position 3 (update_all counts its
\* steps from 1: "步骤3失败"), three outcomes are recorded (A, B, C in that
\* order) and nothing is executed or recorded after C.
C3_Amended ==
    C3_Scenario =>
        /\ pc = "idle"
        /\ ret # <<>>
        /\ ~ret[1].success
        /\ ReportedStep(ret[1].message) = 3
        /\ ret[1].message = StepWord \o <<51>> \o FailedWord \o results[3].message
        /\ Len(results) = 3
        /\ <<results[1].stage, results[2].stage, results[3].stage>> = <<1, 2, 3>>
        /\ executed = <<1, 2, 3>>

\* C3 witness: the scenario has run to its end.
C3_Witness == C3_Scenario /\ pc = "idle" /\ ret # <<>>

\* C4: in update_all, stages run one at a time in the declared order: at most
\* one child is alive, the k-th stage executed is the k-th of the list (so none
\* runs twice and none out of order), and a stage is started only when every
\* earlier one has returned its result.
C4_Sequential ==
    handler = "update_all" =>
        /\ Cardinality(running) <= 1
        /\ Len(executed) <= Len(steps)
        /\ \A k \in 1..Len(executed) : executed[k] = steps[k].stage
        /\ pc = "wait" =>
              /\ running = {executed[Len(executed)]}
              /\ Len(results) = Len(executed) - 1
              /\ i = Len(executed)
        /\ pc = "call" =>
              /\ running = {}
              /\ Len(results) = Len(executed)
              /\ i = Len(executed) + 1
        /\ pc = "idle" =>
              /\ running = {}
              /\ Len(results) = Len(executed)

\* C4 witness: step 3 is running after step 1 timed out or failed and step 2
\* returned.
C4_Witness ==
    /\ handler = "update_all"
    /\ pc = "wait"
    /\ running = {3}
    /\ FailedAt(1)
    /\ Len(results) = 2

\* C5 as claimed: the result returned by a run whose allowed stage failed
\* differs from the result returned by a run in which every stage succeeded.
C5_Original ==
    ( /\ handler = "update_all"
      /\ pc = "idle"
      /\ \E k \in 1..Len(results) : FailedAt(k) /\ steps[k].allow_fail )
    => ret # <<update_all_done>>

\* C5 amended: the failure of an allowed stage is shown as a warning carrying
\* the stage's message while the run goes on, and it is not recorded in the
\* returned result: when every other stage succeeds, update_all returns the
\* same pair as a run in which every stage succeeded.
C5_Amended ==
    handler = "update_all" =>
        \A k \in 1..Len(results) :
            (FailedAt(k) /\ steps[k].allow_fail) =>
                /\ \E m \in 1..Len(shown) :
                      shown[m] = Ui("warning",
                                    WarnMark \o results[k].message \o UseExistingSuffix)
                /\ ( /\ pc = "idle"
                     /\ \A j \in 1..Len(results) : j # k => results[j].success )
                   => ret = <<update_all_done>>

\* C5 witness: a finished run, step 1 failed, and the returned pair is the
\* one of a run without failures.
C5_Witness ==
    /\ handler = "update_all"
    /\ pc = "idle"
    /\ FailedAt(1)
    /\ ret = <<update_all_done>>
    /\ lastOut.kind = "exit"

\* The "factors only" run has shown its final success notice.
FactorsDoneShown == \E m \in 1..Len(shown) : shown[m] = Ui("success", FactorsDoneMsg)

\* C6: "factors only" executes steps 2, 3, 4, 5 in that order, stops at the
\* first failing one and is reported successful exactly when all four
\* succeeded; "signal only" executes step 5 once and nothing else.
C6_Composites ==
    /\ handler = "factors_only" =>
          /\ Len(executed) <= 4
          /\ \A k \in 1..Len(executed) : executed[k] = <<2, 3, 4, 5>>[k]
          /\ \A k \in 1..Len(results) :
                FailedAt(k) =>
                    /\ pc = "idle"
                    /\ Len(executed) = k
                    /\ ~all_success
                    /\ ~FactorsDoneShown
          /\ pc # "idle" => ~FactorsDoneShown
          /\ pc = "idle" =>
                /\ all_success <=>
                      (Len(results) = 4 /\ \A k \in 1..4 : results[k].success)
                /\ FactorsDoneShown <=> all_success
    /\ handler = "signal_only" =>
          /\ executed \in {<<>>, <<5>>}
          /\ pc = "idle" => (executed = <<5>> /\ Len(results) = 1)

\* C6 witness: "factors only" stopped at its third step (step 4).
C6_Witness ==
    /\ handler = "factors_only"
    /\ pc = "idle"
    /\ Len(results) = 3
    /\ FailedAt(3)
    /\ executed = <<2, 3, 4>>

\* C7 as claimed: a step whose child exits with code 0 returns success with
\* the step's fixed success message, whatever the child wrote.
C7_ExitZeroSucceeds ==
    (ChildExited /\ lastOut.rc = 0) =>
        /\ LastResult.success
        /\ LastResult.message = SuccessMsg(LastResult.stage)

\* C8 as claimed: a step whose child exits with a non-zero code returns
\* failure, and its message contains the first 200 characters of what the
\* child wrote to its error stream and nothing of it beyond the 200th.
C8_NonZeroKeepsStderr ==
    (ChildExited /\ lastOut.rc # 0) =>
        /\ ~LastResult.success
        /\ Contains(LastResult.message, SubSeq(lastOut.stderr, 1, Min(200, Len(lastOut.stderr))))
        /\ Len(lastOut.stderr) > 200 =>
              ~Contains(LastResult.message, SubSeq(lastOut.stderr, 1, 201))

\* C9: a step that times out returns failure with its timeout message, and no
\* step execution that ended otherwise (non-zero exit, exception, success)
\* returns that message: the message tells a timeout from everything else.
C9_TimeoutDistinct ==
    Len(results) > 0 =>
        /\ lastOut.kind = "timeout" => ~LastResult.success
        /\ (LastResult.message = TimeoutMsg(LastResult.stage))
              <=> (lastOut.kind = "timeout")

\* C9 witness: step 3 timed out in a full run.
C9_Witness ==
    /\ handler = "update_all"
    /\ Len(results) = 3
    /\ lastOut.kind = "timeout"
    /\ LastResult.message = TimeoutMsg(3)

\* p is a prefix of s.
HasPrefix(s, p) == Len(p) <= Len(s) /\ SubSeq(s, 1, Len(p)) = p

\* Which of the four return statements of step s produced r.
ReturnForms(s, r) ==
    { f \in {"success", "nonzero", "timeout", "exception"} :
        \/ f = "success" /\ r.success /\ r.message = SuccessMsg(s)
        \/ f = "nonzero" /\ ~r.success /\ HasPrefix(r.message, FailPrefix(s))
        \/ f = "timeout" /\ ~r.success /\ r.message = TimeoutMsg(s)
        \/ f = "exception" /\ ~r.success /\ HasPrefix(r.message, ExcPrefix(s)) }

\* C10: every step execution returns a (boolean, message) pair of exactly one
\* of the four forms; a launch failure is returned as failure with str(e) in
\* the message, and the caller handles it as it handles any failure: update_all
\* goes on after an allowed stage and stops, reporting the position, at a
\* required one; "factors only" stops.
C10_FourOutcomes ==
    Len(results) > 0 =>
        LET r == LastResult
            k == Len(results)
        IN  /\ r.success \in BOOLEAN
            /\ \A c \in 1..Len(r.message) : r.message[c] \in Nat
            /\ Cardinality(ReturnForms(r.stage, r)) = 1
            /\ lastOut.kind = "oserror" =>
                  /\ ~r.success
                  /\ ReturnForms(r.stage, r) = {"exception"}
                  /\ r.message = ExcPrefix(r.stage) \o lastOut.text
                  /\ handler = "update_all" =>
                        IF steps[k].allow_fail
                        THEN pc # "idle" /\ i = k + 1 /\ ret = <<>>
                        ELSE /\ pc = "idle"
                             /\ ret = << [success |-> FALSE,
                                          message |-> StepWord \o IntStr(k)
                                                      \o FailedWord \o r.message] >>
                  /\ handler = "factors_only" => (pc = "idle" /\ ~all_success)

\* C10 witness: step 2 of a full run could not be launched (missing working
\* directory) and the run stopped there.
C10_Witness ==
    /\ handler = "update_all"
    /\ Len(results) = 2
    /\ lastOut.kind = "oserror"
    /\ lastOut.text = NoSuchDirText
    /\ pc = "idle"
    /\ ~ret[1].success

\* C11 as claimed: while the data source is the remote one ('github'), no
\* button of the update page starts a step: no step function is called and no
\* child process runs.
C11_RemoteNoExecution ==
    DATA_SOURCE = "github" => (executed = <<>> /\ running = {})

\* C12 as claimed: triggering is serialized: while a run or a single step is
\* in progress no other one is started, so two child processes of different
\* triggers are never alive together.
C12_Serialized ==
    /\ Cardinality({u \in Sessions : sess[u].pc # "idle"}) <= 1
    /\ Cardinality(procs) <= 1

\* ---------------------------------------------- claims on marker alignment
\* The chart of show_trade_signals was drawn.
ChartDrawn == trade_view = "chart"

\* The price rows of the selected symbol in the factor data that was read.
Series ==
    {factor_data.rows[k] : k \in {j \in 1..Len(factor_data.rows) :
                                     factor_data.rows[j].symbol = selected_symbol}}

\* The signals of the selected symbol with action a, in table order.
SigsOf(a) ==
    SelectSeq(signals_df, LAMBDA r : r.symbol = selected_symbol /\ r.action = a)

\* Some row of the price rows ser is dated on or after d.
Resolvable(ser, d) == \E r \in ser : r.date >= d

\* The signals with action a that some price row of the symbol can serve, in
\* table order: the m-th of them is the signal of the m-th marker.
Resolved(a) ==
    LET ser == Series
    IN  SelectSeq(SigsOf(a), LAMBDA r : Resolvable(ser, r.date))

MDates(a) == IF a = "BUY" THEN buy_dates ELSE sell_dates

MPrices(a) == IF a = "BUY" THEN buy_prices ELSE sell_prices

\* The price rows ser have a row at exactly date d.
HasExact(ser, d) == \E r \in ser : r.date = d

\* C13: a signal of the selected symbol whose date has a price row of the
\* symbol at exactly that date gets that row's close as its marker price,
\* whatever other rows are present; no later row's close is used instead.
C13_ExactPreferred ==
    ChartDrawn =>
        \A a \in SignalActions :
            LET ser == Series
                res == Resolved(a)
                prices == MPrices(a)
            IN  \A m \in 1..Len(res) : \A r \in ser :
                    r.date = res[m].date =>
                        /\ m <= Len(prices)
                        /\ prices[m] = r.close

\* An exact row was used although a later row of the symbol is also present.
C13_Witness ==
    /\ ChartDrawn
    /\ \E m \in 1..Len(Resolved("BUY")) : \E r, q \in Series :
          /\ r.date = Resolved("BUY")[m].date
          /\ q.date > r.date
          /\ m <= Len(buy_prices)
          /\ buy_prices[m] = r.close

\* C14 as claimed: a signal with no exact-date row but some row of the symbol
\* dated on or after it gets the close of the row with the smallest such date,
\* in whatever order the rows appear in the price series.
C14_EarliestLaterRow ==
    ChartDrawn =>
        \A a \in SignalActions :
            LET ser == Series
                res == Resolved(a)
                prices == MPrices(a)
            IN  \A m \in 1..Len(res) :
                    ~HasExact(ser, res[m].date) =>
                        \E r \in ser :
                            /\ r.date >= res[m].date
                            /\ \A q \in ser : q.date >= res[m].date => r.date <= q.date
                            /\ m <= Len(prices)
                            /\ prices[m] = r.close

\* C15: a signal dated strictly after every price date of the symbol gets no
\* marker and the chart is still drawn; the other signals keep their markers.
C15_LateSignalOmitted ==
    (/\ trade_view # "pending"
     /\ factor_data.loaded
     /\ selected_symbol \in available_symbols(factor_data.rows))
    => \A a \in SignalActions :
           LET ser == Series
               sigs == SigsOf(a)
               res == Resolved(a)
               dates == MDates(a)
               prices == MPrices(a)
           IN  (\E k \in 1..Len(sigs) : ~Resolvable(ser, sigs[k].date))
               => /\ ChartDrawn
                  /\ Len(dates) = Len(res)
                  /\ Len(prices) = Len(res)
                  /\ \A m \in 1..Len(res) :
                        /\ dates[m] = res[m].date
                        /\ \E r \in ser : /\ r.date >= res[m].date
                                          /\ r.close = prices[m]

\* A late signal precedes a signal that has its marker.
C15_Witness ==
    /\ ChartDrawn
    /\ Len(SigsOf("SELL")) = 2
    /\ ~Resolvable(Series, SigsOf("SELL")[1].date)
    /\ Resolvable(Series, SigsOf("SELL")[2].date)
    /\ Len(sell_dates) = 1
    /\ sell_dates[1] = SigsOf("SELL")[2].date

\* C16: alignment never looks backward: every marker's date is on or after
\* its signal's date and its price is the close of a row of the symbol dated
\* on or after the signal's date.
C16_NeverBackward ==
    ChartDrawn =>
        \A a \in SignalActions :
            LET ser == Series
                res == Resolved(a)
                dates == MDates(a)
                prices == MPrices(a)
            IN  \A m \in 1..Len(dates) :
                    /\ m <= Len(res)
                    /\ m <= Len(prices)
                    /\ dates[m] >= res[m].date
                    /\ \E r \in ser : /\ r.close = prices[m]
                                      /\ r.date >= res[m].date

\* A marker has the close of a row dated on or after its signal although an
\* earlier row of the symbol is present, and comes first in the series.
C16_Witness ==
    /\ ChartDrawn
    /\ Len(price_data) = 2
    /\ \E m \in 1..Len(buy_dates) :
          /\ price_data[1].date < Resolved("BUY")[m].date
          /\ price_data[2].date >= Resolved("BUY")[m].date
          /\ buy_prices[m] = price_data[2].close

\* C17 as claimed: every marker's (date_used, price_used) pair is a
\* (date, close) row of the symbol's price series.
C17_Original ==
    ChartDrawn =>
        \A a \in SignalActions : \A m \in 1..Len(MDates(a)) :
            \E r \in Series : r.date = MDates(a)[m] /\ r.close = MPrices(a)[m]

\* C17 as the code has it: date_used is always the signal's own date and the
\* price is the close of a row dated on or after it, so the pair is a row of
\* the series exactly when the series has a row at the signal's date.
C17_Amended ==
    ChartDrawn =>
        \A a \in SignalActions :
            LET ser == Series
                res == Resolved(a)
                dates == MDates(a)
                prices == MPrices(a)
            IN  \A m \in 1..Len(dates) :
                    /\ m <= Len(res)
                    /\ dates[m] = res[m].date
                    /\ (\E r \in ser : r.date = dates[m] /\ r.close = prices[m])
                          <=> HasExact(ser, res[m].date)

\* A marker stands at its signal's date with the close of a later row.
C17_Witness ==
    /\ ChartDrawn
    /\ \E m \in 1..Len(sell_dates) : \E r \in Series :
          /\ ~HasExact(Series, Resolved("SELL")[m].date)
          /\ sell_dates[m] = Resolved("SELL")[m].date
          /\ r.date > sell_dates[m]
          /\ sell_prices[m] = r.close

\* C18: only the selected symbol's signals and price rows are used: each of
\* its signals has at most one marker, exactly one when some row of the symbol
\* is dated on or after it, and every marker price is a close of the symbol.
C18_OnlySelectedSymbol ==
    \A a \in SignalActions :
        LET ser == Series
            dates == MDates(a)
            prices == MPrices(a)
        IN  /\ Len(dates) = Len(prices)
            /\ Len(dates) <= Len(SigsOf(a))
            /\ ChartDrawn => Len(dates) = Len(Resolved(a))
            /\ ~ChartDrawn => Len(dates) = 0
            /\ \A m \in 1..Len(prices) : \E r \in ser : r.close = prices[m]

\* Another symbol has a signal and a price row dated on or after a signal of
\* the selected symbol, which has its one marker.
C18_Witness ==
    /\ ChartDrawn
    /\ Len(buy_dates) = 1
    /\ Len(SigsOf("BUY")) = 1
    /\ \E k \in 1..Len(signals_df) : signals_df[k].symbol # selected_symbol
    /\ \E k \in 1..Len(factor_data.rows) :
          /\ factor_data.rows[k].symbol # selected_symbol
          /\ factor_data.rows[k].date >= buy_dates[1]

\* --------------------------------------------- claims on the file statuses
\* C19: probing a path that does not exist raises nothing: load_data_status
\* gives (None, None), the file's metric is the "absent" one, with no age, and
\* the page is rendered to its end.
C19_AbsentNeverRaises ==
    /\ page # "error"
    /\ page = "done" =>
          /\ ~fs[1].exists => status_new = NoStatus
          /\ \A f \in Files :
                ~fs[f].exists =>
                    /\ file_status[f].kind = "absent"
                    /\ file_status[f].days_old = None

\* The data file and an entry of files_to_check are absent, and an entry after
\* it has its age shown.
C19_Witness ==
    /\ page = "done"
    /\ ~fs[1].exists
    /\ status_new = NoStatus
    /\ \E f, g \in Files :
          /\ f < g
          /\ file_status[f].kind = "absent"
          /\ file_status[g].kind = "present"

\* C20: no status is cached: what the bottom of the page shows is the files as
\* they are when it is rendered, whatever the top of the page read before the
\* step processes created, rewrote or removed them.
C20_NeverCached ==
    page = "done" =>
        /\ status_new.latest_date = (IF fs[1].exists THEN fs[1].mtime ELSE None)
        /\ status_new.data_count = (IF fs[1].exists THEN fs[1].mtime + 1 ELSE None)
        /\ \A f \in Files :
              IF fs[f].exists
              THEN /\ file_status[f].kind = "present"
                   /\ file_status[f].days_old = now - fs[f].mtime
              ELSE file_status[f].kind = "absent"

\* The data file was rewritten between the two reads of its status.
C20_Witness ==
    /\ page = "done"
    /\ status # NoStatus
    /\ status_new # NoStatus
    /\ status_new # status

\* -------------------------------------------------- claims on the age notes
\* The age bucket a colour of the file status section stands for.
ColorBucket(color) ==
    CASE color = "green" -> "fresh"
      [] color = "yellow" -> "aging"
      [] color = "red" -> "stale"
      [] OTHER -> "none"

\* The age of the data the sidebar and the home page were given.
DataAge == now - status.latest_date

\* The one policy of the claim: 0 fresh, 1 aging, more stale and advised.
PolicyBucket(age) ==
    IF age = 0 THEN "fresh" ELSE IF age = 1 THEN "aging" ELSE "stale"

FailureLevel(k) ==
    IF handler = "update_all" /\ steps[k].allow_fail THEN "warning" ELSE "error"

\* C22: no stage failure is swallowed: in the full run and in the composite
\* runs, every stage that has failed has a message on the page that carries
\* the stage's failure text, a warning for an allowed failure and an error
\* for a required one, from the moment the stage returned.
C22_NoSilentFailure ==
    handler \in {"update_all", "factors_only", "signal_only"} =>
        \A k \in 1..Len(results) :
            FailedAt(k) =>
                \E m \in 1..Len(shown) :
                    /\ shown[m].level = FailureLevel(k)
                    /\ Contains(shown[m].text, results[k].message)

\* A "factors only" run ended at its second step, whose failure is on the page
\* as an error.
C22_Witness ==
    /\ handler = "factors_only"
    /\ pc = "idle"
    /\ Len(results) = 2
    /\ FailedAt(2)
    /\ \E m \in 1..Len(shown) : shown[m] = Ui("error", ErrMark \o results[2].message)

\* The number of stages of the run of the button pressed.
RunLength ==
    CASE handler = "update_all" -> Len(steps)
      [] handler = "factors_only" -> Len(factor_steps)
      [] OTHER -> 1

\* The run has its final result.
RunFinished == pc = "idle" /\ (handler = "update_all" => ret # <<>>)

\* C23: every run terminates: with every stage process exiting or being cut
\* off at its timeout, a run over n stages executes at most n stages and
\* reaches its final result.
C23_RunTerminates ==
    /\ [](Len(executed) <= RunLength)
    /\ (pc # "idle") ~> RunFinished

\* A full run ended with its final result after a stage was cut off at its
\* timeout.
C23_Witness ==
    /\ handler = "update_all"
    /\ RunFinished
    /\ lastOut.kind = "timeout"
    /\ Len(executed) >= 2

\* C24: after the allowed failure of the download stage the next stage is
\* invoked unconditionally: whether or not earlier data exists on disk, the
\* run is about to call stage 2 or has called it, and no file is looked for.
C24_NextStageUnconditional ==
    (handler = "update_all" /\ FailedAt(1)) =>
        /\ Len(executed) = 1 => (pc = "call" /\ i = 2 /\ ret = <<>>)
        /\ Len(executed) >= 2 => executed[2] = 2

\* A first run: no data on disk, the download failed, and stage 2 is running.
C24_Witness ==
    /\ ~fs[1].exists
    /\ handler = "update_all"
    /\ FailedAt(1)
    /\ executed = <<1, 2>>
    /\ running = {2}

\* C25: the full run goes through the same six stages in the same order, only
\* the download (stage 1) may fail: stage j from 2 to 6 is executed only after
\* every stage from 2 to j-1 succeeded in this run, and the run reports
\* success exactly when stages 2 to 6 all succeeded.
C25_StaticOrder ==
    handler = "update_all" =>
        /\ Len(executed) <= NumSteps
        /\ \A k \in 1..Len(executed) : executed[k] = k
        /\ \A k \in 1..Len(results) : results[k].stage = k
        /\ \A j \in 2..Len(executed) : \A m \in 2..(j - 1) :
              m <= Len(results) /\ results[m].success
        /\ pc = "idle" =>
              /\ ret # <<>>
              /\ ret[1].success <=>
                    /\ Len(results) = NumSteps
                    /\ \A m \in 2..NumSteps : results[m].success

\* A full run whose download succeeded stopped at the factor analysis.
C25_Witness ==
    /\ handler = "update_all"
    /\ pc = "idle"
    /\ executed = <<1, 2, 3, 4>>
    /\ results[1].success
    /\ ~ret[1].success

\* ------------------------------------------ further claims on the alignment
\* C26: BUY and SELL signals are aligned by the same rule: the buy markers are
\* what the sell loop makes of the BUY signals and the sell markers are what
\* the buy loop makes of the SELL signals: same dates, same prices, the same
\* signals kept and omitted.
C26_BuySellSameRule ==
    ChartDrawn =>
        LET by_sell == sell_loop(price_data, SigsOf("BUY"))
            by_buy == buy_loop(price_data, SigsOf("SELL"))
        IN  /\ buy_dates = by_sell.dates
            /\ buy_prices = by_sell.prices
            /\ sell_dates = by_buy.dates
            /\ sell_prices = by_buy.prices

\* A BUY and a SELL signal, neither with a price row at its date, both have a
\* marker at their own date with the close of the same later row.
C26_Witness ==
    /\ ChartDrawn
    /\ Len(buy_dates) = 1
    /\ Len(sell_dates) = 1
    /\ buy_prices = sell_prices
    /\ ~HasExact(Series, buy_dates[1])
    /\ ~HasExact(Series, sell_dates[1])

\* ------------------------------------------- claim on the update history
\* C27 as claimed: an unavailable table of rotation scores is an absent state
\* on the update page: whenever the loader returns no data, the update-history
\* section is skipped or shows a notice and never fails on the missing table,
\* in local and in remote mode.
C27_HistoryNeverFails == history # "raised"
====
